---- MODULE Spec2Model ----
(***************************************************************************)
(* A model of pycasinosim.casino.equipment.card: the Card identity model,  *)
(* the Deck (construction, deck-level shuffle, draw) and the Shoe          *)
(* (construction, shoe-level shuffle, draw, overdrawn card replacement).   *)
(***************************************************************************)
EXTENDS Integers, Sequences, FiniteSets, TLC

(* ------------------------------------------------------------------ *)
(* Bounds of the model                                                  *)
(* ------------------------------------------------------------------ *)

\* Rank has 13 members and Face 4 in the source; the model keeps the first
\* NumRanks ranks and the first NumFaces faces, so a deck has
\* NumFaces * NumRanks cards (52 in the source).
NumRanks == 2
NumFaces == 2
\* The largest number of decks a Shoe is constructed with.
MaxDecks == 2
\* secrets.choice(range(0, n)) returns an index below Min(n, MaxRand) ...
MaxRand == 2
\* ... and a non-zero index at most MaxPicks times during one construction.
MaxPicks == 1
\* replace_overdrawn_card is called while fewer than MaxOverdrawn cards wait
\* in the overdrawn list.
MaxOverdrawn == 2
\* callers of one Shoe running at the same time
NumThreads == 2

(* ------------------------------------------------------------------ *)
(* Rank, Face, Card, CardShuffle                                        *)
(* ------------------------------------------------------------------ *)

Rank == 1..NumRanks
Face == 1..NumFaces
DeckSize == NumFaces * NumRanks

\* Card.uuid is None
NoUuid == 0
\* Card(rank, face, uuid): a frozen dataclass, compared field by field.
Card(r, f, u) == [rank |-> r, face |-> f, uuid |-> u]
\* the value None where a Card is expected
NoCard == Card(0, 0, NoUuid)

\* CardShuffle members, and None for "no shuffle"
DECK == "DECK"
SHOE == "SHOE"
DECK_AND_SHOE == "DECK_AND_SHOE"
NoShuffle == "None"
CardShuffle == {DECK, SHOE, DECK_AND_SHOE}
\* what a caller may pass as card_shuffle: a member, None, or something else
ShuffleArgs == CardShuffle \cup {NoShuffle, "not a CardShuffle"}
\* what a caller may pass as decks: an int, or something else (-2 stands for
\* a value that is not an int)
NotAnInt == -2
DecksArgs == (-1..MaxDecks) \cup {NotAnInt}

(* ------------------------------------------------------------------ *)
(* Sequence helpers: list.pop(i), list.pop(0), any(...)                 *)
(* ------------------------------------------------------------------ *)

\* variant: the first element is removed whatever the index
PopAt_First(s, i) == [k \in 1..(Len(s) - 1) |-> s[k + 1]]

\* the list after list.pop(i), i counted from 0
PopAt(s, i) == [k \in 1..(Len(s) - 1) |-> IF k <= i THEN s[k] ELSE s[k + 1]]
\* the uuids of a list of cards, as a set
UuidsOf(s) == {s[k].uuid : k \in 1..Len(s)}
\* the uuids of a list of cards, in order
UuidSeq(s) == [k \in 1..Len(s) |-> s[k].uuid]
\* the elements of a list of uuids
Elems(s) == {s[k] : k \in 1..Len(s)}
Min(a, b) == IF a < b THEN a ELSE b

\* the callers of the Shoe that may run at the same time
Threads == 1..NumThreads

(* ------------------------------------------------------------------ *)
(* State                                                                *)
(* ------------------------------------------------------------------ *)

VARIABLES
  pc,               \* where Shoe.__init__ stands, "ready" once it returned;
                    \* "deck_own_shuffle", "deck_ready" for a Deck of its own
  decks,            \* Shoe.decks
  shuffle,          \* Shoe.shuffle (and Deck.shuffle of the deck being built)
  cards,            \* Shoe._cards
  overdrawn_cards,  \* Shoe._overdrawn_cards
  card_uuids,       \* Shoe._card_uuids
  shoe_populated,   \* Shoe._shoe_populated
  shuffled,         \* Shoe._shuffled
  built,            \* the loop variable i of _populate_shoe: decks drained
  deck_cards,       \* Deck._cards of the deck d being built
  deck_shuffled,    \* Deck._shuffled of the deck d being built
  shuffled_cards,   \* the local list shuffled_cards of a running shuffle
  issued,           \* number of uuids uuid4() has produced so far
  picks,            \* number of non-zero indices secrets.choice has returned
  last,             \* the last call on the Shoe and what it returned
  drawn,            \* history: every card a draw_card call has returned
  outstanding,      \* history: uuids drawn and not replaced since
  replaced,         \* history: uuids replaced and not drawn since, in order
  runLeft,          \* history: cards_remaining at the start of the current
                    \* run of consecutive draw_card calls, less the calls
                    \* of the run; -1 once the run is longer than that
  pending           \* per caller: the card of its replace_overdrawn_card
                    \* call that has passed the tests and is not appended yet

shoeVars == <<decks, shuffle, cards, overdrawn_cards, card_uuids,
              shoe_populated, shuffled>>
buildVars == <<built, deck_cards, deck_shuffled, shuffled_cards, issued, picks>>
histVars == <<last, drawn, outstanding, replaced, runLeft>>
vars == <<pc, shoeVars, buildVars, histVars, pending>>

\* what a call returned: a card, None, nothing (a procedure), or an exception
Ret(k, c) == [kind |-> k, card |-> c]
NoCall == [op |-> "none", ret |-> Ret("none", NoCard)]

(* ------------------------------------------------------------------ *)
(* Shoe properties                                                      *)
(* ------------------------------------------------------------------ *)

\* variant: can_draw_card looks at self._cards only
CanDrawCard_CardsOnly == Len(cards) > 0

\* Shoe.can_draw_card
CanDrawCard == Len(cards) > 0 \/ Len(overdrawn_cards) > 0
\* Shoe.cards_remaining
CardsRemaining == Len(cards) + Len(overdrawn_cards)
\* Shoe._use_overdrawn_card
UseOverdrawnCard == Len(overdrawn_cards) > 0
\* Deck.can_draw_card, of the deck being built
DeckCanDrawCard == Len(deck_cards) > 0
\* Deck.cards_remaining, of the deck being built
DeckCardsRemaining == Len(deck_cards)

(* ------------------------------------------------------------------ *)
(* Init: before Shoe(decks, card_shuffle) is called                     *)
(* ------------------------------------------------------------------ *)

Init ==
  /\ pc = "new"
  /\ decks = 0
  /\ shuffle = NoShuffle
  /\ cards = <<>>
  /\ overdrawn_cards = <<>>
  /\ card_uuids = <<>>
  /\ shoe_populated = FALSE
  /\ shuffled = FALSE
  /\ built = 0
  /\ deck_cards = <<>>
  /\ deck_shuffled = FALSE
  /\ shuffled_cards = <<>>
  /\ issued = 0
  /\ picks = 0
  /\ last = NoCall
  /\ drawn = {}
  /\ outstanding = {}
  /\ replaced = <<>>
  /\ runLeft = 0
  /\ pending = [t \in Threads |-> NoCard]

(* ------------------------------------------------------------------ *)
(* Shoe.__init__, Shoe._populate_shoe, Deck.__init__, the two shuffles  *)
(* ------------------------------------------------------------------ *)

\* variant: a Shoe of no decks is accepted
ShoeInitError_ZeroAllowed(d, m) ==
  IF m /= NoShuffle /\ m \notin CardShuffle THEN "TypeError"
  ELSE IF d = NotAnInt THEN "TypeError"
  ELSE IF d < 0 THEN "ValueError"
  ELSE ""

\* the exception Shoe.__init__ raises for its arguments, "" when it raises none
ShoeInitError(d, m) ==
  IF m /= NoShuffle /\ m \notin CardShuffle THEN "TypeError"
  ELSE IF d = NotAnInt THEN "TypeError"
  ELSE IF d < 1 THEN "ValueError"
  ELSE ""

\* Shoe.__init__ up to the call of _populate_shoe
ShoeInit(d, m) ==
  /\ pc = "new"
  /\ IF ShoeInitError(d, m) /= ""
     THEN /\ pc' = "failed"
          /\ last' = [op |-> "init", ret |-> Ret(ShoeInitError(d, m), NoCard)]
          /\ UNCHANGED <<shoeVars, buildVars>>
     ELSE /\ shuffle' = m
          /\ decks' = d
          /\ cards' = <<>>
          /\ overdrawn_cards' = <<>>
          /\ card_uuids' = <<>>
          /\ shoe_populated' = FALSE
          /\ built' = 0
          /\ pc' = "populate"
          /\ UNCHANGED <<shuffled, deck_cards, deck_shuffled, shuffled_cards,
                         issued, picks, last>>
  /\ UNCHANGED <<pending, drawn, outstanding, replaced, runLeft>>

\* variant: the uuid default is evaluated once, every Card shares it
NewDeckCards_SharedUuid(first) ==
  [k \in 1..DeckSize |->
     Card(((k - 1) % NumRanks) + 1, ((k - 1) \div NumRanks) + 1, 1)]

\* [Card(card[1], card[0]) for card in product(list(Face), list(Rank))],
\* the uuid4() of the k-th card being the (first + k)-th uuid issued
NewDeckCards(first) ==
  [k \in 1..DeckSize |->
     Card(((k - 1) % NumRanks) + 1, ((k - 1) \div NumRanks) + 1, first + k)]

\* variant: a Deck without a mode is shuffled too
DeckShuffleWanted_AlsoUnset(m, done) ==
  ~done /\ (m = DECK \/ m = DECK_AND_SHOE \/ m = NoShuffle)

\* the guard of Deck._shuffle_cards
DeckShuffleWanted(m, done) ==
  ~done /\ (m = DECK \/ m = DECK_AND_SHOE)

\* variant: the guard does not look at self._shuffled
ShoeShuffleWanted_IgnoresFlag(m, done) ==
  m = SHOE \/ m = DECK_AND_SHOE

\* the guard of Shoe._shuffle_cards
ShoeShuffleWanted(m, done) ==
  ~done /\ (m = SHOE \/ m = DECK_AND_SHOE)

\* the indices secrets.choice(range(0, n)) returns in the model
Choices(n) == {i \in 0..(Min(n, MaxRand) - 1) : i = 0 \/ picks < MaxPicks}

\* one round of the loop of _populate_shoe: d = Deck(self.shuffle), up to the
\* loop of Deck._shuffle_cards
NewDeck ==
  /\ pc = "populate"
  /\ ~shoe_populated
  /\ built < decks
  /\ deck_cards' = NewDeckCards(issued)
  /\ issued' = issued + DeckSize
  /\ deck_shuffled' = FALSE
  /\ shuffled_cards' = <<>>
  /\ pc' = IF DeckShuffleWanted(shuffle, FALSE) THEN "deck_shuffle" ELSE "drain"
  /\ UNCHANGED <<pending, shoeVars, built, picks, histVars>>

\* where Deck._shuffle_cards runs: for the deck d of _populate_shoe, or for
\* a Deck constructed on its own
DeckShufflePcs == {"deck_shuffle", "deck_own_shuffle"}

\* variant: the first card is taken in every iteration
DeckShufflePick_FirstOnly(idx) ==
  /\ pc \in DeckShufflePcs
  /\ DeckCanDrawCard
  /\ \E i \in idx \cap {0} :
       /\ shuffled_cards' = Append(shuffled_cards, deck_cards[i + 1])
       /\ deck_cards' = PopAt(deck_cards, i)
       /\ picks' = IF i = 0 THEN picks ELSE picks + 1
  /\ UNCHANGED <<pending, pc, shoeVars, built, deck_shuffled, issued, histVars>>

\* one iteration of the loop of Deck._shuffle_cards, secrets.choice returning
\* an index of idx
DeckShufflePick(idx) ==
  /\ pc \in DeckShufflePcs
  /\ DeckCanDrawCard
  /\ \E i \in idx :
       /\ shuffled_cards' = Append(shuffled_cards, deck_cards[i + 1])
       /\ deck_cards' = PopAt(deck_cards, i)
       /\ picks' = IF i = 0 THEN picks ELSE picks + 1
  /\ UNCHANGED <<pending, pc, shoeVars, built, deck_shuffled, issued, histVars>>

\* one iteration of the loop of Deck._shuffle_cards
DeckShuffleStep == DeckShufflePick(Choices(DeckCardsRemaining))

\* Deck.__init__ returns
DeckConstructed == [op |-> "deck_init", ret |-> Ret("ok", NoCard)]

\* the end of Deck._shuffle_cards; Deck.__init__ returns to _populate_shoe or
\* to the caller that constructed the Deck
DeckShuffleEnd ==
  /\ pc \in DeckShufflePcs
  /\ ~DeckCanDrawCard
  /\ deck_cards' = shuffled_cards
  /\ deck_shuffled' = TRUE
  /\ shuffled_cards' = <<>>
  /\ IF pc = "deck_shuffle"
     THEN /\ pc' = "drain"
          /\ UNCHANGED <<last, runLeft>>
     ELSE /\ pc' = "deck_ready"
          /\ last' = DeckConstructed
          /\ runLeft' = Len(shuffled_cards)
  /\ UNCHANGED <<pending, shoeVars, built, issued, picks, drawn, outstanding,
                 replaced>>

\* variant: the first card is returned and the last one is removed
DeckDrawCard_PopLast(dc) ==
  IF Len(dc) > 0 THEN <<dc[1], PopAt(dc, Len(dc) - 1)>> ELSE <<NoCard, dc>>

\* Deck.draw_card: <<the card returned, the cards left>>
DeckDrawCard(dc) ==
  IF Len(dc) > 0 THEN <<dc[1], PopAt(dc, 0)>> ELSE <<NoCard, dc>>

\* Deck(card_shuffle) constructed on its own, up to the loop of
\* Deck._shuffle_cards
DeckInit(m) ==
  /\ pc = "new"
  /\ IF m /= NoShuffle /\ m \notin CardShuffle
     THEN /\ pc' = "failed"
          /\ last' = [op |-> "deck_init", ret |-> Ret("TypeError", NoCard)]
          /\ UNCHANGED <<shuffle, deck_cards, issued, deck_shuffled, runLeft>>
     ELSE /\ shuffle' = m
          /\ deck_cards' = NewDeckCards(issued)
          /\ issued' = issued + DeckSize
          /\ deck_shuffled' = FALSE
          /\ IF DeckShuffleWanted(m, FALSE)
             THEN /\ pc' = "deck_own_shuffle"
                  /\ UNCHANGED <<last, runLeft>>
             ELSE /\ pc' = "deck_ready"
                  /\ last' = DeckConstructed
                  /\ runLeft' = DeckSize
  /\ UNCHANGED <<pending, decks, cards, overdrawn_cards, card_uuids,
                 shoe_populated, shuffled, built, shuffled_cards, picks, drawn,
                 outstanding, replaced>>

\* Deck.draw_card on a Deck constructed on its own
DeckDraw ==
  /\ pc = "deck_ready"
  /\ LET r == DeckDrawCard(deck_cards)
     IN /\ deck_cards' = r[2]
        /\ last' = [op |-> "deck_draw",
                    ret |-> IF r[1] = NoCard THEN Ret("None", NoCard)
                            ELSE Ret("card", r[1])]
        /\ drawn' = IF r[1] = NoCard THEN drawn ELSE drawn \cup {r[1]}
  /\ runLeft' = IF runLeft > 0 THEN runLeft - 1 ELSE -1
  /\ UNCHANGED <<pending, pc, shoeVars, built, deck_shuffled, shuffled_cards,
                 issued, picks, outstanding, replaced>>

\* Deck._shuffle_cards called once more on a constructed Deck
DeckShuffleAgain ==
  /\ pc = "deck_ready"
  /\ IF DeckShuffleWanted(shuffle, deck_shuffled)
     THEN /\ pc' = "deck_own_shuffle"
          /\ shuffled_cards' = <<>>
          /\ UNCHANGED <<last, runLeft>>
     ELSE /\ last' = [op |-> "deck_shuffle", ret |-> Ret("ok", NoCard)]
          /\ runLeft' = Len(deck_cards)
          /\ UNCHANGED <<pc, shuffled_cards>>
  /\ UNCHANGED <<pending, shoeVars, built, deck_cards, deck_shuffled, issued,
                 picks, drawn, outstanding, replaced>>

\* variant: the uuids of the cards are not recorded in self._card_uuids
RECURSIVE Drain_NoUuids(_, _, _)
Drain_NoUuids(dc, cu, cs) ==
  IF Len(dc) > 0
  THEN LET c == DeckDrawCard(dc)[1]
       IN Drain_NoUuids(DeckDrawCard(dc)[2], cu, Append(cs, c))
  ELSE [deck_cards |-> dc, card_uuids |-> cu, cards |-> cs]

\* variant: the cards of the deck are put in front of self._cards
RECURSIVE Drain_InFront(_, _, _)
Drain_InFront(dc, cu, cs) ==
  IF Len(dc) > 0
  THEN LET c == DeckDrawCard(dc)[1]
       IN Drain_InFront(DeckDrawCard(dc)[2], Append(cu, c.uuid), <<c>> \o cs)
  ELSE [deck_cards |-> dc, card_uuids |-> cu, cards |-> cs]

\* for c in d: self._card_uuids.append(c.uuid); self._cards.append(c)
\* with Deck.__next__ drawing until can_draw_card is false
RECURSIVE Drain(_, _, _)
Drain(dc, cu, cs) ==
  IF Len(dc) > 0
  THEN LET c == DeckDrawCard(dc)[1]
       IN Drain(DeckDrawCard(dc)[2], Append(cu, c.uuid), Append(cs, c))
  ELSE [deck_cards |-> dc, card_uuids |-> cu, cards |-> cs]

\* the inner loop of _populate_shoe
DrainDeck ==
  /\ pc = "drain"
  /\ LET r == Drain(deck_cards, card_uuids, cards)
     IN /\ deck_cards' = r.deck_cards
        /\ card_uuids' = r.card_uuids
        /\ cards' = r.cards
  /\ built' = built + 1
  /\ pc' = "populate"
  /\ UNCHANGED <<decks, shuffle, overdrawn_cards, shoe_populated, shuffled,
                 deck_shuffled, shuffled_cards, issued, picks, histVars,
                 pending>>

\* Shoe.__init__ returns
Constructed == [op |-> "init", ret |-> Ret("ok", NoCard)]

\* the end of _populate_shoe, self._shuffled = False, and _shuffle_cards up
\* to its loop
PopulateEnd ==
  /\ pc = "populate"
  /\ built = decks
  /\ shoe_populated' = TRUE
  /\ shuffled' = FALSE
  /\ shuffled_cards' = <<>>
  /\ IF ShoeShuffleWanted(shuffle, FALSE)
     THEN /\ pc' = "shoe_shuffle"
          /\ UNCHANGED <<last, runLeft>>
     ELSE /\ pc' = "ready"
          /\ last' = Constructed
          /\ runLeft' = CardsRemaining
  /\ UNCHANGED <<decks, shuffle, cards, overdrawn_cards, card_uuids, built,
                 deck_cards, deck_shuffled, issued, picks, drawn, outstanding,
                 replaced, pending>>

\* one iteration of the loop of Shoe._shuffle_cards; self._cards.pop(i) raises
\* IndexError for an index past the end of _cards
ShoeShuffleStep ==
  /\ pc = "shoe_shuffle"
  /\ CanDrawCard
  /\ \E i \in Choices(CardsRemaining) :
       IF i < Len(cards)
       THEN /\ shuffled_cards' = Append(shuffled_cards, cards[i + 1])
            /\ cards' = PopAt(cards, i)
            /\ picks' = IF i = 0 THEN picks ELSE picks + 1
            /\ UNCHANGED <<pc, last>>
       ELSE /\ pc' = "failed"
            /\ last' = [op |-> "init", ret |-> Ret("IndexError", NoCard)]
            /\ UNCHANGED <<shuffled_cards, cards, picks>>
  /\ UNCHANGED <<decks, shuffle, overdrawn_cards, card_uuids, shoe_populated,
                 shuffled, built, deck_cards, deck_shuffled, issued, drawn,
                 outstanding, replaced, runLeft, pending>>

\* the end of Shoe._shuffle_cards: Shoe.__init__ returns
ShoeShuffleEnd ==
  /\ pc = "shoe_shuffle"
  /\ ~CanDrawCard
  /\ cards' = shuffled_cards
  /\ shuffled' = TRUE
  /\ shuffled_cards' = <<>>
  /\ pc' = "ready"
  /\ last' = Constructed
  /\ runLeft' = Len(shuffled_cards) + Len(overdrawn_cards)
  /\ UNCHANGED <<decks, shuffle, overdrawn_cards, card_uuids, shoe_populated,
                 built, deck_cards, deck_shuffled, issued, picks, drawn,
                 outstanding, replaced, pending>>

\* Shoe._shuffle_cards called once more on a constructed Shoe
ShoeShuffleAgain ==
  /\ pc = "ready"
  /\ IF ShoeShuffleWanted(shuffle, shuffled)
     THEN /\ pc' = "shoe_shuffle"
          /\ shuffled_cards' = <<>>
          /\ UNCHANGED <<last, runLeft>>
     ELSE /\ last' = [op |-> "shuffle", ret |-> Ret("ok", NoCard)]
          /\ runLeft' = CardsRemaining
          /\ UNCHANGED <<pc, shuffled_cards>>
  /\ UNCHANGED <<pending, shoeVars, built, deck_cards, deck_shuffled, issued,
                 picks, drawn, outstanding, replaced>>

(* ------------------------------------------------------------------ *)
(* Shoe.draw_card                                                       *)
(* ------------------------------------------------------------------ *)

\* variant: list.pop() instead of list.pop(0)
DrawOverdrawnCard_Lifo(od) ==
  IF Len(od) > 0
  THEN [ret |-> Ret("card", od[Len(od)]),
        overdrawn_cards |-> SubSeq(od, 1, Len(od) - 1)]
  ELSE [ret |-> Ret("None", NoCard), overdrawn_cards |-> od]

\* Shoe._draw_overdrawn_card on the list od: the card returned and the list
\* left
DrawOverdrawnCard(od) ==
  IF Len(od) > 0
  THEN [ret |-> Ret("card", od[1]), overdrawn_cards |-> PopAt(od, 0)]
  ELSE [ret |-> Ret("None", NoCard), overdrawn_cards |-> od]

\* variant: self._cards[0] instead of self._cards.pop(0)
DrawCardResult_NoPop(cs, od) ==
  IF Len(od) > 0
  THEN [ret |-> DrawOverdrawnCard(od).ret,
        cards |-> cs,
        overdrawn_cards |-> DrawOverdrawnCard(od).overdrawn_cards]
  ELSE IF Len(cs) > 0 \/ Len(od) > 0
       THEN [ret |-> Ret("card", cs[1]), cards |-> cs, overdrawn_cards |-> od]
       ELSE [ret |-> Ret("None", NoCard), cards |-> cs, overdrawn_cards |-> od]

\* variant: no can_draw_card test, self._cards.pop(0) raises on an empty list
DrawCardResult_NoGuard(cs, od) ==
  IF Len(od) > 0
  THEN [ret |-> DrawOverdrawnCard(od).ret,
        cards |-> cs,
        overdrawn_cards |-> DrawOverdrawnCard(od).overdrawn_cards]
  ELSE IF Len(cs) > 0
       THEN [ret |-> Ret("card", cs[1]),
             cards |-> PopAt(cs, 0),
             overdrawn_cards |-> od]
       ELSE [ret |-> Ret("IndexError", NoCard),
             cards |-> cs,
             overdrawn_cards |-> od]

\* Shoe.draw_card on the lists cs (_cards) and od (_overdrawn_cards): the
\* value returned and the two lists left
DrawCardResult(cs, od) ==
  IF Len(od) > 0
  THEN [ret |-> DrawOverdrawnCard(od).ret,
        cards |-> cs,
        overdrawn_cards |-> DrawOverdrawnCard(od).overdrawn_cards]
  ELSE IF Len(cs) > 0 \/ Len(od) > 0
       THEN [ret |-> Ret("card", cs[1]),
             cards |-> PopAt(cs, 0),
             overdrawn_cards |-> od]
       ELSE [ret |-> Ret("None", NoCard), cards |-> cs, overdrawn_cards |-> od]

\* a call of Shoe.draw_card
DrawCard ==
  /\ pc = "ready"
  /\ LET r == DrawCardResult(cards, overdrawn_cards)
         c == r.ret.card
         got == r.ret.kind = "card"
     IN /\ cards' = r.cards
        /\ overdrawn_cards' = r.overdrawn_cards
        /\ last' = [op |-> "draw", ret |-> r.ret]
        /\ drawn' = IF got THEN drawn \cup {c} ELSE drawn
        /\ outstanding' = IF got THEN outstanding \cup {c.uuid} ELSE outstanding
        /\ replaced' = IF got THEN SelectSeq(replaced, LAMBDA u : u /= c.uuid)
                              ELSE replaced
        /\ runLeft' = IF runLeft > 0 THEN runLeft - 1 ELSE -1
  /\ UNCHANGED <<pc, decks, shuffle, card_uuids, shoe_populated, shuffled,
                 buildVars, pending>>

(* ------------------------------------------------------------------ *)
(* Shoe.replace_overdrawn_card                                          *)
(* ------------------------------------------------------------------ *)

\* an argument that is not an instance of Card
NotACard == Card(-1, -1, -1)

\* any(c.uuid == card.uuid for c in s)
AnyUuid(s, card) == \E k \in 1..Len(s) : s[k].uuid = card.uuid

\* variant: only self._cards is searched
IsCardInShoe_CardsOnly(card, cs, od) == AnyUuid(cs, card)

\* variant: c == card instead of c.uuid == card.uuid
IsCardInShoe_ByEquality(card, cs, od) ==
  \/ \E k \in 1..Len(cs) : cs[k] = card
  \/ \E k \in 1..Len(od) : od[k] = card

\* Shoe._is_card_in_shoe
IsCardInShoe(card, cs, od) == AnyUuid(cs, card) \/ AnyUuid(od, card)

\* card.uuid not in self._card_uuids
NotInCardUuids(card, cu) == \A k \in 1..Len(cu) : cu[k] /= card.uuid

\* variant: the test of card.uuid against self._card_uuids is missing
ReplaceResult_NoUuidCheck(card, cs, od, cu) ==
  IF card = NotACard
  THEN [ret |-> Ret("TypeError", NoCard), overdrawn_cards |-> od]
  ELSE IF IsCardInShoe(card, cs, od)
  THEN [ret |-> Ret("BadCardError: already in the shoe", NoCard),
        overdrawn_cards |-> od]
  ELSE [ret |-> Ret("ok", NoCard), overdrawn_cards |-> Append(od, card)]

\* variant: the test _is_card_in_shoe is missing
ReplaceResult_NoShoeCheck(card, cs, od, cu) ==
  IF card = NotACard
  THEN [ret |-> Ret("TypeError", NoCard), overdrawn_cards |-> od]
  ELSE IF card.uuid = NoUuid \/ NotInCardUuids(card, cu)
  THEN [ret |-> Ret("BadCardError: invalid uuid", NoCard),
        overdrawn_cards |-> od]
  ELSE [ret |-> Ret("ok", NoCard), overdrawn_cards |-> Append(od, card)]

\* variant: self._overdrawn_cards.insert(0, card) instead of append(card)
ReplaceResult_Prepend(card, cs, od, cu) ==
  IF card = NotACard
  THEN [ret |-> Ret("TypeError", NoCard), overdrawn_cards |-> od]
  ELSE IF card.uuid = NoUuid \/ NotInCardUuids(card, cu)
  THEN [ret |-> Ret("BadCardError: invalid uuid", NoCard),
        overdrawn_cards |-> od]
  ELSE IF IsCardInShoe(card, cs, od)
  THEN [ret |-> Ret("BadCardError: already in the shoe", NoCard),
        overdrawn_cards |-> od]
  ELSE [ret |-> Ret("ok", NoCard), overdrawn_cards |-> <<card>> \o od]

\* variant: the card is appended before _is_card_in_shoe is tested
ReplaceResult_AppendFirst(card, cs, od, cu) ==
  IF card = NotACard
  THEN [ret |-> Ret("TypeError", NoCard), overdrawn_cards |-> od]
  ELSE IF card.uuid = NoUuid \/ NotInCardUuids(card, cu)
  THEN [ret |-> Ret("BadCardError: invalid uuid", NoCard),
        overdrawn_cards |-> od]
  ELSE IF IsCardInShoe(card, cs, od)
  THEN [ret |-> Ret("BadCardError: already in the shoe", NoCard),
        overdrawn_cards |-> Append(od, card)]
  ELSE [ret |-> Ret("ok", NoCard), overdrawn_cards |-> Append(od, card)]

\* Shoe.replace_overdrawn_card(card) on the lists cs (_cards), od
\* (_overdrawn_cards) and cu (_card_uuids): what it returns or raises, and
\* the overdrawn list left
ReplaceResult(card, cs, od, cu) ==
  IF card = NotACard
  THEN [ret |-> Ret("TypeError", NoCard), overdrawn_cards |-> od]
  ELSE IF card.uuid = NoUuid \/ NotInCardUuids(card, cu)
  THEN [ret |-> Ret("BadCardError: invalid uuid", NoCard),
        overdrawn_cards |-> od]
  ELSE IF IsCardInShoe(card, cs, od)
  THEN [ret |-> Ret("BadCardError: already in the shoe", NoCard),
        overdrawn_cards |-> od]
  ELSE [ret |-> Ret("ok", NoCard), overdrawn_cards |-> Append(od, card)]

\* a Card the caller constructs, of the last Rank and the last Face, carrying
\* the uuid u; the card of this shoe with uuid 1 has the first Rank and Face
Forged(u) == Card(NumRanks, NumFaces, u)

\* the cards a caller may pass: the cards of this shoe, a Card constructed by
\* the caller with no uuid, with the first uuid of this shoe or with a uuid
\* of its own, and a value that is not a Card
CardArgs ==
  {cards[k] : k \in 1..Len(cards)}
    \cup {overdrawn_cards[k] : k \in 1..Len(overdrawn_cards)}
    \cup drawn
    \cup {Forged(u) : u \in {NoUuid, 1, issued + 1}}
    \cup {NotACard}

\* a call of Shoe.replace_overdrawn_card(card)
ReplaceOverdrawnCard(card) ==
  /\ pc = "ready"
  /\ Len(overdrawn_cards) < MaxOverdrawn \/ card.uuid \notin outstanding
  /\ LET r == ReplaceResult(card, cards, overdrawn_cards, card_uuids)
         ok == r.ret.kind = "ok"
     IN /\ overdrawn_cards' = r.overdrawn_cards
        /\ last' = [op |-> "replace", ret |-> r.ret]
        /\ outstanding' = IF ok THEN outstanding \ {card.uuid} ELSE outstanding
        /\ replaced' = IF ok THEN Append(replaced, card.uuid) ELSE replaced
        /\ runLeft' = Len(cards) + Len(r.overdrawn_cards)
  /\ UNCHANGED <<pending, pc, decks, shuffle, cards, card_uuids, shoe_populated,
                 shuffled, buildVars, drawn>>

(* ------------------------------------------------------------------ *)
(* Specification                                                        *)
(* ------------------------------------------------------------------ *)

Next ==
  \/ \E d \in DecksArgs, m \in ShuffleArgs : ShoeInit(d, m)
  \/ NewDeck
  \/ DeckShuffleStep
  \/ DeckShuffleEnd
  \/ DrainDeck
  \/ PopulateEnd
  \/ ShoeShuffleStep
  \/ ShoeShuffleEnd
  \/ ShoeShuffleAgain
  \/ DrawCard
  \/ \E card \in CardArgs : ReplaceOverdrawnCard(card)
  \/ \E m \in ShuffleArgs : DeckInit(m)
  \/ DeckDraw
  \/ DeckShuffleAgain

Spec == Init /\ [][Next]_vars

\* the steps of a constructor that has been called: straight-line code and
\* loops that the interpreter keeps executing until __init__ returns or raises
Construct ==
  \/ NewDeck
  \/ DeckShuffleStep
  \/ DeckShuffleEnd
  \/ DrainDeck
  \/ PopulateEnd
  \/ ShoeShuffleStep
  \/ ShoeShuffleEnd

\* construction of a Shoe or of a Deck, and the calls on a Deck of its own
BuildNext ==
  \/ \E d \in DecksArgs, m \in ShuffleArgs : ShoeInit(d, m)
  \/ \E m \in ShuffleArgs : DeckInit(m)
  \/ Construct
  \/ DeckDraw
  \/ DeckShuffleAgain

\* one iteration of the loop of Deck._shuffle_cards, secrets.choice returning
\* any index of range(0, self.cards_remaining)
FreeDeckShuffleStep == DeckShufflePick(0..(DeckCardsRemaining - 1))

\* a Deck of its own that is shuffled, every index being possible
ShuffleNext ==
  \/ \E m \in {DECK, DECK_AND_SHOE} : DeckInit(m)
  \/ FreeDeckShuffleStep
  \/ DeckShuffleEnd
  \/ DeckDraw

ShuffleSpec == Init /\ [][ShuffleNext]_vars

\* construction alone; a constructor that was called keeps running
BuildSpec == Init /\ [][BuildNext]_vars /\ WF_vars(Construct)

(* ------------------------------------------------------------------ *)
(* Properties                                                           *)
(* ------------------------------------------------------------------ *)

\* no element of the list s occurs twice
Distinct(s) == \A i, j \in 1..Len(s) : i /= j => s[i] /= s[j]
\* the uuids the shoe holds: known_ids
KnownIds == Elems(card_uuids)
\* the uuids in _cards and _overdrawn_cards
InShoe == UuidsOf(cards) \cup UuidsOf(overdrawn_cards)
\* replace_overdrawn_card raised one of its two BadCardErrors
UnknownCard == "BadCardError: invalid uuid"
AlreadyInShoe == "BadCardError: already in the shoe"

\* C1: in every state of a constructed Shoe, whatever draw_card and
\* replace_overdrawn_card calls were made, no uuid occurs twice in _cards and
\* _overdrawn_cards taken together.
C1_AtMostOneLocation ==
  pc = "ready" => Distinct(UuidSeq(cards) \o UuidSeq(overdrawn_cards))

\* C1 witness: cards wait in both lists, the overdrawn list is full
C1_Witness ==
  /\ pc = "ready"
  /\ Len(overdrawn_cards) >= 2
  /\ Len(cards) > 0

\* C2: draw_card returns and removes the front of _overdrawn_cards when that
\* list is not empty (leaving _cards alone), else the front of _cards, else
\* None; and while replaced cards wait, it returns the one replaced first.
C2_DrawOrder ==
  [][DrawCard =>
       /\ IF overdrawn_cards /= <<>>
          THEN /\ last'.ret = Ret("card", Head(overdrawn_cards))
               /\ overdrawn_cards' = Tail(overdrawn_cards)
               /\ cards' = cards
          ELSE IF cards /= <<>>
          THEN /\ last'.ret = Ret("card", Head(cards))
               /\ cards' = Tail(cards)
               /\ overdrawn_cards' = overdrawn_cards
          ELSE /\ last'.ret = Ret("None", NoCard)
               /\ cards' = cards
               /\ overdrawn_cards' = overdrawn_cards
       /\ replaced /= <<>> =>
            /\ last'.ret.kind = "card"
            /\ last'.ret.card.uuid = Head(replaced)
            /\ replaced' = Tail(replaced)]_vars

\* C2 witness: a draw has just taken the first of two waiting replaced cards
C2_Witness ==
  /\ pc = "ready"
  /\ last.op = "draw"
  /\ last.ret.kind = "card"
  /\ Len(overdrawn_cards) = 1
  /\ Len(replaced) = 1
  /\ Len(cards) > 0

\* C3: replace_overdrawn_card(card) raises the invalid-uuid BadCardError,
\* and not the already-in-the-shoe one, whenever card.uuid is not in
\* _card_uuids.
C3_UnknownCard ==
  [][\A card \in CardArgs :
       (/\ ReplaceOverdrawnCard(card)
        /\ card /= NotACard
        /\ card.uuid \notin KnownIds)
       => last'.ret.kind = UnknownCard]_vars

\* C3 witness: a card of another origin was refused while the shoe was in use
C3_Witness ==
  /\ pc = "ready"
  /\ last.op = "replace"
  /\ last.ret.kind = UnknownCard
  /\ drawn /= {}

\* C4: replace_overdrawn_card(card) raises the already-in-the-shoe
\* BadCardError whenever card.uuid is known and is in _cards or
\* _overdrawn_cards, in particular when no draw has returned that uuid since
\* construction or since its last replacement.
C4_AlreadyInShoe ==
  [][\A card \in CardArgs :
       (/\ ReplaceOverdrawnCard(card)
        /\ card /= NotACard
        /\ card.uuid \in KnownIds
        /\ (card.uuid \in InShoe \/ card.uuid \notin outstanding))
       => last'.ret.kind = AlreadyInShoe]_vars

\* C4 witness: a card was refused as already in the shoe while a replaced
\* card waits
C4_Witness ==
  /\ pc = "ready"
  /\ last.op = "replace"
  /\ last.ret.kind = AlreadyInShoe
  /\ Len(overdrawn_cards) > 0

\* C5: replace_overdrawn_card(card) succeeds for every card a draw has
\* returned that is in neither list, and a successful call appends the card
\* at the back of _overdrawn_cards, leaves _cards and the earlier overdrawn
\* cards as they were, and raises cards_remaining by one.
C5_ReplaceSucceeds ==
  [][\A card \in CardArgs :
       ReplaceOverdrawnCard(card) =>
         /\ (card \in drawn /\ card.uuid \notin InShoe) => last'.ret.kind = "ok"
         /\ last'.ret.kind = "ok" =>
              /\ overdrawn_cards' = overdrawn_cards \o <<card>>
              /\ cards' = cards
              /\ Len(cards') + Len(overdrawn_cards') = CardsRemaining + 1]_vars

\* C5 witness: a second card has been replaced behind a waiting one
C5_Witness ==
  /\ pc = "ready"
  /\ last.op = "replace"
  /\ last.ret.kind = "ok"
  /\ Len(overdrawn_cards) >= 2
  /\ Len(cards) > 0

\* C6: a replace_overdrawn_card call that raises leaves _cards,
\* _overdrawn_cards and _card_uuids as they were.
C6_FailureLeavesState ==
  [][\A card \in CardArgs :
       (ReplaceOverdrawnCard(card) /\ last'.ret.kind /= "ok")
       => UNCHANGED <<cards, overdrawn_cards, card_uuids>>]_vars

\* C6 witness: a call has failed with two cards waiting and cards left
C6_Witness ==
  /\ pc = "ready"
  /\ last.op = "replace"
  /\ last.ret.kind \in {UnknownCard, AlreadyInShoe}
  /\ Len(overdrawn_cards) >= 2
  /\ Len(cards) > 0

\* C7: a replace_overdrawn_card call succeeds only for a uuid that a draw
\* has returned and that has not been replaced since that draw.
C7_ReplaceFollowsDraw ==
  [][\A card \in CardArgs :
       (ReplaceOverdrawnCard(card) /\ last'.ret.kind = "ok")
       => card.uuid \in outstanding]_vars

\* C7 witness: a card has been replaced while another drawn card is still out
C7_Witness ==
  /\ pc = "ready"
  /\ last.op = "replace"
  /\ last.ret.kind = "ok"
  /\ outstanding /= {}

\* C8: every known uuid is in exactly one of _cards, _overdrawn_cards and the
\* uuids drawn and not replaced since, so the three sizes add up to the
\* number of cards built and cards_remaining never exceeds it.
C8_NoCardLostOrDuplicated ==
  pc = "ready" =>
    /\ KnownIds = UuidsOf(cards) \cup UuidsOf(overdrawn_cards) \cup outstanding
    /\ UuidsOf(cards) \cap UuidsOf(overdrawn_cards) = {}
    /\ UuidsOf(cards) \cap outstanding = {}
    /\ UuidsOf(overdrawn_cards) \cap outstanding = {}
    /\ Len(cards) + Len(overdrawn_cards) + Cardinality(outstanding)
         = DeckSize * decks
    /\ Cardinality(KnownIds) = DeckSize * decks
    /\ CardsRemaining <= DeckSize * decks

\* C8 witness: cards are in all three places
C8_Witness ==
  /\ pc = "ready"
  /\ outstanding /= {}
  /\ overdrawn_cards /= <<>>
  /\ cards /= <<>>
  /\ last.op = "draw"

\* C9: when Shoe(decks, card_shuffle) returns, for every decks >= 1 and every
\* card_shuffle, cards_remaining is the deck size times decks, no card is
\* overdrawn, and the uuids of the cards are pairwise distinct.
C9_AfterConstruction ==
  (pc = "ready" /\ last = Constructed) =>
    /\ decks >= 1
    /\ CardsRemaining = DeckSize * decks
    /\ overdrawn_cards = <<>>
    /\ Len(cards) = DeckSize * decks
    /\ Distinct(UuidSeq(cards))

\* C9 witness: a shoe of several decks, shuffled at both levels, has just
\* been constructed with its cards out of their canonical order
C9_Witness ==
  /\ pc = "ready"
  /\ last = Constructed
  /\ decks >= 2
  /\ shuffle = DECK_AND_SHOE
  /\ picks > 0

\* C10: in a run of consecutive draw_card calls that starts with
\* cards_remaining = k, each of the first k calls returns a card and lowers
\* cards_remaining by one, so that the k-th leaves cards_remaining = 0 and
\* can_draw_card false; every further call returns None and changes nothing.
C10_Exhaustion ==
  [][DrawCard =>
       IF runLeft > 0
       THEN /\ last'.ret.kind = "card"
            /\ CardsRemaining = runLeft
            /\ Len(cards') + Len(overdrawn_cards') = runLeft - 1
            /\ runLeft = 1 => (Len(cards') = 0 /\ Len(overdrawn_cards') = 0)
       ELSE /\ last'.ret = Ret("None", NoCard)
            /\ CardsRemaining = 0
            /\ UNCHANGED <<cards, overdrawn_cards, card_uuids>>]_vars

\* C10 witness: a run of draws that began after a replacement has emptied the
\* shoe and one more draw has returned None
C10_Witness ==
  /\ pc = "ready"
  /\ runLeft = -1
  /\ last.op = "draw"
  /\ last.ret.kind = "None"
  /\ Cardinality(outstanding) = DeckSize * decks
  /\ Forged(1) \in drawn

\* C11: cards_remaining is the length of _cards plus the length of
\* _overdrawn_cards, can_draw_card holds exactly when cards_remaining is
\* positive, and draw_card returns a card exactly when can_draw_card held
\* when it was called (None otherwise)
C11_RemainingAndCanDraw ==
  /\ [](pc = "ready" =>
         /\ CardsRemaining = Len(cards) + Len(overdrawn_cards)
         /\ CanDrawCard <=> CardsRemaining > 0)
  /\ [][DrawCard =>
          /\ last'.ret.kind = "card" <=> CanDrawCard
          /\ last'.ret.kind = "None" <=> ~CanDrawCard]_vars

\* a draw returned a card while _cards was empty: the card came from
\* _overdrawn_cards, which still holds another one
C11_Witness ==
  /\ pc = "ready"
  /\ last.op = "draw"
  /\ last.ret.kind = "card"
  /\ cards = <<>>
  /\ overdrawn_cards /= <<>>

\* the shuffle arguments Shoe.__init__ accepts: a CardShuffle or None
ShuffleModes == CardShuffle \cup {NoShuffle}

\* C12: Shoe(decks, card_shuffle) with decks < 1 raises for every shuffle
\* argument (ValueError when the shuffle argument is a mode or None) and leaves
\* no Shoe behind, not even a partly populated one; with decks >= 1 and a mode
\* or None it goes on to populate, and the construction then returns a Shoe of
\* decks * 52 cards
C12_DeckCountValidation ==
  /\ [][\A d \in DecksArgs, m \in ShuffleArgs : ShoeInit(d, m) =>
          /\ d \in -1..0 =>
               /\ pc' = "failed"
               /\ last'.op = "init"
               /\ last'.ret.kind \in {"ValueError", "TypeError"}
               /\ m \in ShuffleModes => last'.ret.kind = "ValueError"
               /\ UNCHANGED <<shoeVars, buildVars>>
          /\ (d \in 1..MaxDecks /\ m \in ShuffleModes) =>
               /\ pc' = "populate"
               /\ decks' = d
               /\ shuffle' = m]_vars
  /\ [](pc = "failed" =>
         /\ cards = <<>>
         /\ overdrawn_cards = <<>>
         /\ card_uuids = <<>>
         /\ ~shoe_populated)
  /\ (pc = "populate") ~>
       (pc = "ready" /\ last = Constructed /\ Len(cards) = decks * DeckSize)

\* Shoe.__init__ raised ValueError
C12_Witness ==
  /\ pc = "failed"
  /\ last = [op |-> "init", ret |-> Ret("ValueError", NoCard)]

\* the (rank, face) pair of a card, and the pairs of a list of cards
PairOf(c) == <<c.rank, c.face>>
PairsOf(s) == {PairOf(s[k]) : k \in 1..Len(s)}

\* C13: a Deck constructed with any mode or None holds 52 cards; the cards
\* drawn from it and the cards left in it are together one card of every
\* (rank, face) pair, so draining it yields each pair exactly once; a draw
\* returns the first card while there is one, and after the last one
\* cards_remaining is 0 and draw_card returns None
C13_DeckContents ==
  /\ [](pc = "deck_ready" =>
         /\ last = DeckConstructed => DeckCardsRemaining = DeckSize
         /\ Cardinality(drawn) + DeckCardsRemaining = DeckSize
         /\ {PairOf(c) : c \in drawn} \cup PairsOf(deck_cards) = Rank \X Face
         /\ DeckCanDrawCard <=> DeckCardsRemaining > 0)
  /\ [][DeckDraw =>
          IF DeckCanDrawCard
          THEN /\ last'.ret = Ret("card", deck_cards[1])
               /\ deck_cards[1] \notin drawn
               /\ DeckCardsRemaining' = DeckCardsRemaining - 1
          ELSE /\ last'.ret = Ret("None", NoCard)
               /\ DeckCardsRemaining' = 0
               /\ {PairOf(c) : c \in drawn} = Rank \X Face
               /\ Cardinality(drawn) = DeckSize]_vars

\* a Deck that was shuffled has been drained and reports that it is empty
C13_Witness ==
  /\ pc = "deck_ready"
  /\ deck_shuffled
  /\ last = [op |-> "deck_draw", ret |-> Ret("None", NoCard)]
  /\ DeckCardsRemaining = 0
  /\ Cardinality(drawn) = DeckSize

\* how often x occurs in the list s
Count(s, x) == Cardinality({k \in 1..Len(s) : s[k] = x})
\* the lists a and b hold the same elements the same number of times
IsPermutation(a, b) ==
  /\ Len(a) = Len(b)
  /\ \A k \in 1..Len(a) : Count(a, a[k]) = Count(b, a[k])

\* C14: both shuffles only reorder: every iteration moves one card from the
\* list being shuffled to the new list, so the loop ends after as many
\* iterations as there are cards, and the list assigned at the end has the
\* length of the input and holds exactly its cards
C14_ShufflePermutes ==
  /\ [][DeckShuffleStep =>
          /\ IsPermutation(shuffled_cards' \o deck_cards',
                           shuffled_cards \o deck_cards)
          /\ Len(deck_cards') = Len(deck_cards) - 1]_vars
  /\ [][DeckShuffleEnd =>
          /\ IsPermutation(deck_cards', NewDeckCards(issued - DeckSize))
          /\ Len(deck_cards') = DeckSize]_vars
  /\ [][ShoeShuffleStep =>
          /\ IsPermutation(shuffled_cards' \o cards', shuffled_cards \o cards)
          /\ Len(cards') = Len(cards) - 1]_vars
  /\ [][ShoeShuffleEnd =>
          /\ IsPermutation(UuidSeq(cards'), card_uuids)
          /\ PairsOf(cards') = Rank \X Face
          /\ Len(cards') = decks * DeckSize]_vars
  /\ (pc = "deck_shuffle") ~> (pc = "drain" /\ deck_shuffled)
  /\ (pc = "deck_own_shuffle") ~> (pc = "deck_ready" /\ deck_shuffled)
  /\ (pc = "shoe_shuffle") ~> (pc = "ready" /\ shuffled)

\* a Shoe whose shuffle has changed the order of its cards
C14_Witness ==
  /\ pc = "ready"
  /\ shuffled
  /\ last = Constructed
  /\ UuidSeq(cards) /= card_uuids

\* C15: _shuffle_cards called again on a constructed Shoe or Deck, whatever
\* its mode and whatever has been drawn or replaced since, starts no loop and
\* leaves the lists as they are; the loop of Shoe._shuffle_cards runs only
\* inside Shoe.__init__ and ends at most once, with _shuffled still unset
C15_ShuffleOnce ==
  /\ [][ShoeShuffleAgain =>
          /\ pc' = "ready"
          /\ cards' = cards
          /\ overdrawn_cards' = overdrawn_cards
          /\ shuffled' = shuffled]_vars
  /\ [][DeckShuffleAgain =>
          /\ pc' = "deck_ready"
          /\ deck_cards' = deck_cards
          /\ deck_shuffled' = deck_shuffled]_vars
  /\ [][ShoeShuffleEnd => ~shuffled /\ shuffled']_vars
  /\ [](pc = "shoe_shuffle" => ~shuffled /\ last = NoCall)

\* _shuffle_cards has been called again on a Shoe that was shuffled and that
\* has a replaced card waiting
C15_Witness ==
  /\ pc = "ready"
  /\ shuffled
  /\ last.op = "shuffle"
  /\ overdrawn_cards /= <<>>
  /\ UuidSeq(cards) /= SubSeq(card_uuids, Len(card_uuids) - Len(cards) + 1,
                              Len(card_uuids))

\* every Card the Shoe holds or has returned
CardsSeen ==
  {cards[k] : k \in 1..Len(cards)}
    \cup {overdrawn_cards[k] : k \in 1..Len(overdrawn_cards)}
    \cup drawn

\* C16: two Cards that come from two different construction calls never have
\* the same uuid. Cards that differ in rank or face come from different
\* calls; the uuid field is a parameter of Card's constructor, so a caller
\* can construct Forged(u) with the uuid of a card it has drawn, and the Shoe
\* accepts it
C16_IdsUniquePerConstruction ==
  \A c1 \in CardsSeen, c2 \in CardsSeen : c1 /= c2 => c1.uuid /= c2.uuid

\* the indices the loop of _shuffle_cards can draw for a list of n cards: the
\* k-th is drawn from range(0, n - k + 1)
ChoiceSeqs(n) == {c \in [1..n -> 0..(n - 1)] : \A k \in 1..n : c[k] <= n - k}

\* the list the loop of _shuffle_cards builds from pool, out being what it has
\* built so far, when secrets.choice returns the indices c in turn
RECURSIVE ShuffleWith(_, _, _)
ShuffleWith(pool, out, c) ==
  IF Len(pool) = 0 THEN out
  ELSE ShuffleWith(PopAt(pool, c[1]), Append(out, pool[c[1] + 1]), Tail(c))

\* the orders the cards of the list s can be put in
OrdersOf(s) ==
  {p \in [1..Len(s) -> {s[k] : k \in 1..Len(s)}] : IsPermutation(p, s)}

\* C17: every order of the cards is a possible result of the shuffle, and it
\* is the result of exactly one sequence of indices; an index is drawn
\* uniformly from the range, so the n! sequences, and with them the n!
\* orders, are equally likely. In every iteration each index of the range
\* can be the one drawn, and the shuffled Deck is what the indices drawn give
C17_EveryPermutation ==
  /\ (pc = "deck_own_shuffle" /\ shuffled_cards = <<>>) =>
       \A p \in OrdersOf(deck_cards) :
         Cardinality({c \in ChoiceSeqs(Len(deck_cards)) :
                        ShuffleWith(deck_cards, <<>>, c) = p}) = 1
  /\ (pc = "deck_own_shuffle" /\ DeckCanDrawCard) =>
       \A i \in 0..(DeckCardsRemaining - 1) :
         ENABLED (/\ FreeDeckShuffleStep
                  /\ shuffled_cards' = Append(shuffled_cards, deck_cards[i + 1])
                  /\ deck_cards' = PopAt(deck_cards, i))
  /\ (pc = "deck_ready" /\ last = DeckConstructed) =>
       \E c \in ChoiceSeqs(DeckSize) :
         deck_cards = ShuffleWith(NewDeckCards(issued - DeckSize), <<>>, c)

\* the shuffle has turned the Deck upside down
C17_Witness ==
  /\ pc = "deck_ready"
  /\ last = DeckConstructed
  /\ deck_shuffled
  /\ UuidSeq(deck_cards) = [k \in 1..DeckSize |-> DeckSize + 1 - k]

\* the (rank, face) pairs of a list of cards, in order
PairSeq(s) == [k \in 1..Len(s) |-> PairOf(s[k])]
\* the canonical order of a deck: suit by suit as Face lists them, and within
\* a suit rank by rank as Rank lists them
Canonical ==
  [k \in 1..DeckSize |->
     CHOOSE p \in Rank \X Face : (p[2] - 1) * NumRanks + p[1] = k]
\* the list s repeated n times
Repeat(s, n) == [k \in 1..(n * Len(s)) |-> s[((k - 1) % Len(s)) + 1]]
\* the last n elements of the list s
Suffix(s, n) == SubSeq(s, Len(s) - n + 1, Len(s))

\* C18: a Shoe constructed without a mode is never shuffled, neither its decks
\* nor the whole: it starts as the canonical deck repeated decks times, _cards
\* is always the rest of that list, and a draw from _cards returns the next
\* pair of it, so draining the fresh Shoe yields the whole list; a Deck
\* constructed with SHOE or without a mode is not shuffled either and yields
\* the canonical deck
C18_UnsetKeepsCanonical ==
  /\ [](shuffle = NoShuffle =>
         pc \notin {"deck_shuffle", "deck_own_shuffle", "shoe_shuffle"})
  /\ []((pc = "ready" /\ shuffle = NoShuffle) =>
         /\ ~shuffled
         /\ last = Constructed => Len(cards) = decks * DeckSize
         /\ PairSeq(cards) = Suffix(Repeat(Canonical, decks), Len(cards)))
  /\ [][(DrawCard /\ shuffle = NoShuffle /\ ~UseOverdrawnCard /\ CanDrawCard) =>
          PairOf(last'.ret.card) =
            Repeat(Canonical, decks)[decks * DeckSize - Len(cards) + 1]]_vars
  /\ []((pc = "deck_ready" /\ shuffle \in {SHOE, NoShuffle}) =>
         /\ ~deck_shuffled
         /\ last = DeckConstructed => Len(deck_cards) = DeckSize
         /\ PairSeq(deck_cards) = Suffix(Canonical, Len(deck_cards)))
  /\ [][(DeckDraw /\ shuffle \in {SHOE, NoShuffle} /\ DeckCanDrawCard) =>
          PairOf(last'.ret.card) = Canonical[DeckSize - Len(deck_cards) + 1]]_vars

\* a Shoe of two decks constructed without a mode has been drained by draws
\* alone
C18_Witness ==
  /\ pc = "ready"
  /\ shuffle = NoShuffle
  /\ decks = 2
  /\ last.op = "draw"
  /\ cards = <<>>
  /\ overdrawn_cards = <<>>
  /\ Cardinality(outstanding) = decks * DeckSize

\* the cards at positions 52k .. 52k+51 of the list s, k counted from 0
Block(s, k) == SubSeq(s, k * DeckSize + 1, (k + 1) * DeckSize)
\* the block is the deck constructed as the (k+1)-th: it holds that deck's
\* uuids, and with them one card of every (rank, face) pair
IsDeck(b, k) ==
  /\ Len(b) = DeckSize
  /\ UuidsOf(b) = (k * DeckSize + 1)..((k + 1) * DeckSize)
  /\ PairsOf(b) = Rank \X Face

\* C19: _populate_shoe appends the decks one after the other, so after each
\* deck, and in the constructed Shoe when the mode is None or DECK, the k-th
\* block of 52 cards of _cards is the deck constructed k-th, one card of
\* every (rank, face) pair
C19_DecksConcatenated ==
  /\ pc = "populate" =>
       /\ Len(cards) = built * DeckSize
       /\ \A k \in 0..(built - 1) : IsDeck(Block(cards, k), k)
  /\ (pc = "ready" /\ last = Constructed /\ shuffle \in {NoShuffle, DECK}) =>
       /\ Len(cards) = decks * DeckSize
       /\ \A k \in 0..(decks - 1) : IsDeck(Block(cards, k), k)

\* a Shoe of two decks with mode DECK, one of the decks out of canonical order
C19_Witness ==
  /\ pc = "ready"
  /\ last = Constructed
  /\ shuffle = DECK
  /\ decks = 2
  /\ PairSeq(cards) /= Repeat(Canonical, decks)

(* ------------------------------------------------------------------ *)
(* Several callers of one Shoe, no lock                                 *)
(* ------------------------------------------------------------------ *)

\* variant: the append looks at _overdrawn_cards again and leaves out a card
\* whose uuid is there
AppendCard_IfAbsent(od, card) ==
  IF AnyUuid(od, card) THEN od ELSE Append(od, card)

\* self._overdrawn_cards.append(card)
AppendCard(od, card) == Append(od, card)

\* caller t runs replace_overdrawn_card(card) up to the append: the three
\* tests, on the lists as they are now
ReplaceCheck(t, card) ==
  /\ pc = "ready"
  /\ pending[t] = NoCard
  /\ Len(overdrawn_cards) < MaxOverdrawn \/ card.uuid \notin outstanding
  /\ LET r == ReplaceResult(card, cards, overdrawn_cards, card_uuids)
     IN IF r.ret.kind = "ok"
        THEN /\ pending' = [pending EXCEPT ![t] = card]
             /\ UNCHANGED <<last, runLeft>>
        ELSE /\ last' = [op |-> "replace", ret |-> r.ret]
             /\ runLeft' = CardsRemaining
             /\ UNCHANGED pending
  /\ UNCHANGED <<pc, shoeVars, buildVars, drawn, outstanding, replaced>>

\* caller t, whose card has passed the tests, appends it, on the lists as
\* they are now, and returns
ReplaceAppend(t) ==
  /\ pc = "ready"
  /\ pending[t] /= NoCard
  /\ overdrawn_cards' = AppendCard(overdrawn_cards, pending[t])
  /\ pending' = [pending EXCEPT ![t] = NoCard]
  /\ last' = [op |-> "replace", ret |-> Ret("ok", NoCard)]
  /\ outstanding' = outstanding \ {pending[t].uuid}
  /\ replaced' = Append(replaced, pending[t].uuid)
  /\ runLeft' = Len(cards) + Len(overdrawn_cards')
  /\ UNCHANGED <<pc, decks, shuffle, cards, card_uuids, shoe_populated,
                 shuffled, buildVars, drawn>>

\* Shoe(1) is constructed, then its callers draw and replace, a draw being one
\* step and a replacement two
ConcNext ==
  \/ ShoeInit(1, NoShuffle)
  \/ NewDeck
  \/ DrainDeck
  \/ PopulateEnd
  \/ DrawCard
  \/ \E t \in Threads, card \in CardArgs : ReplaceCheck(t, card)
  \/ \E t \in Threads : ReplaceAppend(t)

ConcSpec == Init /\ [][ConcNext]_vars

\* C20: with the tests and the append of replace_overdrawn_card as two steps
\* that other calls can come between, a caller appends its card whatever the
\* lists have become since its tests; when another caller has put the same
\* uuid back in between, the append leaves that uuid twice in the Shoe, a
\* state in which at most one location per uuid no longer holds
C20_InterleavingBreaksInvariant ==
  [][\A t \in Threads :
       (ReplaceAppend(t) /\ IsCardInShoe(pending[t], cards, overdrawn_cards)) =>
         /\ overdrawn_cards' = Append(overdrawn_cards, pending[t])
         /\ ~Distinct(UuidSeq(cards') \o UuidSeq(overdrawn_cards'))]_vars

\* two callers have replaced the same card: its uuid is twice in
\* _overdrawn_cards
C20_Witness ==
  /\ pc = "ready"
  /\ \E i, j \in 1..Len(overdrawn_cards) :
       i /= j /\ overdrawn_cards[i].uuid = overdrawn_cards[j].uuid

\* C21: _card_uuids is filled by _populate_shoe and by nothing else: in a
\* constructed Shoe it lists the uuids of the 52 * decks cards that were built,
\* each once (they are the uuids of _cards when __init__ returns); no call on
\* the constructed Shoe, draw_card or replace_overdrawn_card, returning or
\* raising, changes it; the uuids in _cards and _overdrawn_cards are always
\* among them, and so are the uuids of the cards drawn and not put back
C21_KnownIdsFixed ==
  /\ [](pc = "ready" =>
         /\ Len(card_uuids) = decks * DeckSize
         /\ Distinct(card_uuids)
         /\ KnownIds = 1..(decks * DeckSize)
         /\ last = Constructed => KnownIds = UuidsOf(cards)
         /\ InShoe \subseteq KnownIds
         /\ outstanding \subseteq KnownIds)
  /\ [][DrawCard => card_uuids' = card_uuids]_vars
  /\ [][pc = "ready" => card_uuids' = card_uuids /\ pc' = "ready"]_vars

\* a replacement has just been accepted while another card that was drawn is
\* still outside the Shoe, its uuid still in _card_uuids
C21_Witness ==
  /\ pc = "ready"
  /\ last = [op |-> "replace", ret |-> Ret("ok", NoCard)]
  /\ overdrawn_cards /= <<>>
  /\ outstanding /= {}
  /\ KnownIds \ InShoe /= {}

====
